---- MODULE Spec2Model ----
(***************************************************************************)
(* Box-opening reward campaign (services/box_service.py and the user      *)
(* router): request handlers running as concurrent database transactions  *)
(* on a PostgreSQL store at READ COMMITTED isolation.  A request is one    *)
(* call; its uncommitted writes live in the call's record until the        *)
(* session commits or is rolled back.                                      *)
(***************************************************************************)
EXTENDS Integers, Sequences, FiniteSets, TLC

\* ---------------------------------------------------------------- bounds
NumUsers == 2
NumBoxes == 2
NumCalls == 2
MaxKeys == 1
NumNfts == 1

Users == 1..NumUsers
Positions == 1..NumBoxes
Calls == 1..NumCalls
Nfts == 1..NumNfts

\* box_counter.total_boxes (50000 in the source) scaled to the seeded pool
TOTAL_BOXES == NumBoxes

NULL == 0

\* no read-only service call has returned yet
NoReply == [op |-> "none"]

\* the wrapper of retry_db_operation has not been called
NoRetry == [pc |-> "idle", args |-> <<>>, attempt |-> 0, attempts |-> 0, commits |-> 0,
            rolled_back |-> FALSE, last |-> "none", only_transient |-> TRUE,
            retried_after |-> {}, outcome |-> "none"]

valid_platforms == {"twitter", "discord", "telegram"}
Platforms == valid_platforms \cup {"facebook"}

VARIABLES
    db,            \* committed rows: users.key_count, box_counter, boxes, user_social, user_nft
    counter_lock,  \* call holding the row lock on box_counter id = 1 (NULL if free)
    calls,         \* one record per request: position in its handler, its session state
    clock,         \* datetime.now() ticks
    reinitialized, \* initialize_system has been run again on the live pool
    key0,          \* users.key_count when the first request arrives
    reply,         \* what the last read-only service call returned
    retry          \* one call through the retry_db_operation wrapper

vars == <<db, counter_lock, calls, clock, reinitialized, key0, reply, retry>>

\* ------------------------------------------------------------ rows
\* Box as seeded by populate_boxes.shuffle_and_create_boxes
NewBox == [is_opened |-> FALSE, opened_by_user_id |-> NULL, opened_at |-> NULL, deleted |-> FALSE]

NewCall == [pc |-> "idle", kind |-> "none", user |-> NULL, snap |-> 0,
            pos |-> NULL, time |-> NULL, committed |-> FALSE, had_nft |-> FALSE,
            platform |-> "none", owned |-> {}, new_nfts |-> {}, result |-> "none",
            nft_count_to_use |-> 0, marked |-> {}, keys_earned |-> 0]

RECURSIVE SetToSeq(_)
\* owned_nfts is a list; the chain scan yields it in token order
SetToSeq(S) == IF S = {} THEN <<>>
               ELSE LET m == CHOOSE x \in S : \A y \in S : x <= y
                    IN <<m>> \o SetToSeq(S \ {m})

\* ------------------------------------------------------------ open_box
NoKeys_Strict(key_count) == key_count < 0

\* open_box line 204: the quick validation on the loaded user object
NoKeys(key_count) == key_count <= 0

CounterHasNext_Strict(bc) == bc.next_position < bc.total_boxes

\* assign_next_box_atomically step 1: WHERE id = 1 AND next_position <= total_boxes
CounterHasNext(bc) == bc.next_position <= bc.total_boxes

\* assign_next_box_atomically step 1: SET next_position = next_position + 1
CounterAdvance(bc) == [bc EXCEPT !.next_position = @ + 1]

AssignedPosition_NotDecremented(bc) == CounterAdvance(bc).next_position

\* assign_next_box_atomically step 1: RETURNING next_position - 1 (of the updated row)
AssignedPosition(bc) == CounterAdvance(bc).next_position - 1

BoxClaimable_IgnoresOpened(boxes, position) ==
    /\ position \in DOMAIN boxes
    /\ boxes[position].deleted = FALSE

\* assign_next_box_atomically step 2: WHERE position = :position AND is_opened = false AND deleted = false
BoxClaimable(boxes, position) ==
    /\ position \in DOMAIN boxes
    /\ boxes[position].is_opened = FALSE
    /\ boxes[position].deleted = FALSE

\* assign_next_box_atomically step 2: SET is_opened, opened_by_user_id, opened_at
BoxOpened(box, user_id, opened_at) ==
    [box EXCEPT !.is_opened = TRUE, !.opened_by_user_id = user_id, !.opened_at = opened_at]

\* open_box line 220: user.key_count -= 1 on the loaded user object
KeyAfterOpen(snap) == snap - 1

\* rows of user u that the NFT queries see: used = false AND deleted = false
UnusedNfts(d, u) == {i \in 1..Len(d.user_nft) :
                        /\ d.user_nft[i].user_id = u
                        /\ d.user_nft[i].used = FALSE
                        /\ d.user_nft[i].deleted = FALSE}

\* db.commit() of open_box: the counter, the box and the user row become visible
CommitOpen(d, call) ==
    [d EXCEPT !.box_counter = [@ EXCEPT !.next_position = call.pos + 1],
              !.boxes[call.pos] = BoxOpened(@, call.user, call.time),
              !.key_count[call.user] = KeyAfterOpen(call.snap)]

Rollback_KeepsCounter(d, call) ==
    IF call.pos = NULL THEN d
    ELSE [d EXCEPT !.box_counter = [@ EXCEPT !.next_position = call.pos + 1]]

\* get_db: db.rollback() / db.close() of a session that never committed
Rollback(d, call) == d

\* lowest position among boxes with is_opened = false and deleted = false (0 if none)
Available(boxes) == {p \in DOMAIN boxes : ~boxes[p].is_opened /\ ~boxes[p].deleted}
LowestAvailable(boxes) ==
    IF Available(boxes) = {} THEN NULL
    ELSE CHOOSE p \in Available(boxes) : \A q \in Available(boxes) : p <= q

\* the box row at p is write-locked by an open_box transaction that has not ended
BoxRowLocked(p) == \E c \in Calls : calls[c].pc = "commit" /\ calls[c].pos = p

\* requests are numbered in order of arrival
Arrives(c) == /\ calls[c].pc = "idle"
              /\ \A b \in Calls : b < c => calls[b].pc # "idle"

\* users are numbered in order of their first request
Caller(c, u) == /\ Arrives(c)
                /\ \A v \in Users : v < u => \E b \in Calls : calls[b].user = v

\* the handler returns or raises: the request-scoped session and its objects are gone
Finish(call, res) == [call EXCEPT !.pc = "done", !.result = res, !.snap = 0, !.time = NULL,
                                  !.platform = "none", !.owned = {}, !.new_nfts = {}]

\* get_current_user loads the user row; open_box checks key_count on that object
OpenBegin(c, u) ==
    /\ Caller(c, u)
    /\ LET call == [calls[c] EXCEPT !.kind = "open_box", !.user = u, !.snap = db.key_count[u]]
       IN calls' = [calls EXCEPT ![c] =
                        IF NoKeys(call.snap) THEN Finish(call, "no_keys")
                        ELSE [call EXCEPT !.pc = "counter"]]
    /\ UNCHANGED <<db, counter_lock, clock, reinitialized, key0, reply, retry>>

LockAfterEnd_StillHeld(holder) == holder

\* db.commit() or the rollback of a failed request ends the transaction and
\* with it the row lock it holds on box_counter
LockAfterEnd(holder) == NULL

\* assign_next_box_atomically step 1; the UPDATE waits for the row lock
OpenCounter(c, fault) ==
    /\ calls[c].pc = "counter"
    /\ counter_lock = NULL
    /\ clock' = clock + 1
    /\ IF fault
       THEN /\ calls' = [calls EXCEPT ![c] = Finish([@ EXCEPT !.time = clock'], "db_error")]
            /\ db' = Rollback(db, calls[c])
            /\ UNCHANGED counter_lock
       ELSE IF CounterHasNext(db.box_counter)
       THEN /\ calls' = [calls EXCEPT ![c] = [@ EXCEPT !.pc = "box", !.time = clock',
                                                    !.pos = AssignedPosition(db.box_counter)]]
            /\ counter_lock' = c
            /\ UNCHANGED db
       ELSE /\ calls' = [calls EXCEPT ![c] = Finish([@ EXCEPT !.time = clock'], "no_boxes")]
            /\ db' = Rollback(db, calls[c])
            /\ UNCHANGED counter_lock
    /\ UNCHANGED <<reinitialized, key0, reply, retry>>

\* assign_next_box_atomically step 2
OpenBoxUpdate(c, fault) ==
    /\ calls[c].pc = "box"
    /\ IF fault
       THEN /\ calls' = [calls EXCEPT ![c] = Finish(@, "db_error")]
            /\ db' = Rollback(db, calls[c])
            /\ counter_lock' = LockAfterEnd(counter_lock)
       ELSE IF BoxClaimable(db.boxes, calls[c].pos)
       THEN /\ calls' = [calls EXCEPT ![c] = [@ EXCEPT !.pc = "commit"]]
            /\ UNCHANGED <<db, counter_lock>>
       ELSE /\ calls' = [calls EXCEPT ![c] = Finish(@, "no_boxes")]
            /\ db' = Rollback(db, calls[c])
            /\ counter_lock' = LockAfterEnd(counter_lock)
    /\ UNCHANGED <<clock, reinitialized, key0, reply, retry>>

\* open_box lines 220-224: key_count -= 1, db.add(user), db.commit()
OpenCommit(c, fault) ==
    /\ calls[c].pc = "commit"
    /\ IF fault
       THEN /\ calls' = [calls EXCEPT ![c] = Finish(@, "db_error")]
            /\ db' = Rollback(db, calls[c])
       ELSE /\ calls' = [calls EXCEPT ![c] =
                            [@ EXCEPT !.pc = "post", !.committed = TRUE,
                                      !.had_nft = UnusedNfts(db, calls[c].user) # {}]]
            /\ db' = CommitOpen(db, calls[c])
    /\ counter_lock' = LockAfterEnd(counter_lock)
    /\ UNCHANGED <<clock, reinitialized, key0, reply, retry>>

\* open_box lines 225-254: db.refresh(user), calculate_user_keys, the response
OpenPost(c, fault) ==
    /\ calls[c].pc = "post"
    /\ calls' = [calls EXCEPT ![c] = Finish(@, IF fault THEN "db_error" ELSE "success")]
    /\ UNCHANGED <<db, counter_lock, clock, reinitialized, key0, reply, retry>>

\* ------------------------------------------------------------ add_social
\* add_social line 162: rows of the user for the platform (deleted rows included)
ExistingSocial(d, u, platform) ==
    {i \in 1..Len(d.user_social) :
        d.user_social[i].user_id = u /\ d.user_social[i].platform = platform}

\* add_social line 181: rows of the user whose platform is one of valid_platforms
ConnectedSocials(d, u) ==
    Cardinality({i \in 1..Len(d.user_social) :
        d.user_social[i].user_id = u /\ d.user_social[i].platform \in valid_platforms})

\* add_social lines 156-171: platform validation and the existing-row query
SocialBegin(c, u, platform) ==
    /\ Caller(c, u)
    /\ LET call == [calls[c] EXCEPT !.kind = "add_social", !.user = u,
                                    !.snap = db.key_count[u], !.platform = platform]
       IN calls' = [calls EXCEPT ![c] =
                        IF platform \notin valid_platforms THEN Finish(call, "bad_platform")
                        ELSE IF ExistingSocial(db, u, platform) # {} THEN Finish(call, "conflict")
                        ELSE [call EXCEPT !.pc = "s_insert"]]
    /\ UNCHANGED <<db, counter_lock, clock, reinitialized, key0, reply, retry>>

\* add_social lines 173-179: db.add(new_social), db.commit()
SocialInsert(c) ==
    /\ calls[c].pc = "s_insert"
    /\ db' = [db EXCEPT !.user_social =
                 Append(@, [user_id |-> calls[c].user, platform |-> calls[c].platform,
                            deleted |-> FALSE])]
    /\ calls' = [calls EXCEPT ![c] = [@ EXCEPT !.pc = "s_count"]]
    /\ UNCHANGED <<counter_lock, clock, reinitialized, key0, reply, retry>>

\* add_social lines 181-186: the expired user is reloaded, the rows are counted
SocialCount(c) ==
    /\ calls[c].pc = "s_count"
    /\ LET call == [calls[c] EXCEPT !.snap = db.key_count[calls[c].user]]
       IN calls' = [calls EXCEPT ![c] =
                        IF ConnectedSocials(db, call.user) = 3
                        THEN [call EXCEPT !.pc = "s_award"]
                        ELSE Finish(call, "created")]
    /\ UNCHANGED <<db, counter_lock, clock, reinitialized, key0, reply, retry>>

\* add_social lines 187-188: current_user.key_count += 1, db.commit()
SocialAward(c) ==
    /\ calls[c].pc = "s_award"
    /\ db' = [db EXCEPT !.key_count[calls[c].user] = calls[c].snap + 1]
    /\ calls' = [calls EXCEPT ![c] = Finish([@ EXCEPT !.keys_earned = 1], "awarded")]
    /\ UNCHANGED <<counter_lock, clock, reinitialized, key0, reply, retry>>

\* ------------------------------------------------------------ check_nfts_for_user
\* check_nfts_for_user lines 83-88: a non-deleted row of the user for this NFT
RecordedNft(d, u, nft) ==
    \E i \in 1..Len(d.user_nft) :
        /\ d.user_nft[i].user_id = u
        /\ d.user_nft[i].nft = nft
        /\ d.user_nft[i].deleted = FALSE

\* check_nfts_for_user lines 107-110
KeysToAdd(n) == IF n = 1 THEN 2 ELSE IF n < 10 THEN n ELSE 10

RECURSIVE NftRows(_, _)
\* check_nfts_for_user lines 95-101: one UserNFT(used=False) per new NFT
NftRows(u, nfts) ==
    IF nfts = <<>> THEN <<>>
    ELSE <<[user_id |-> u, nft |-> Head(nfts), used |-> FALSE, deleted |-> FALSE]>>
             \o NftRows(u, Tail(nfts))

\* check_nfts_for_user lines 66-76: the wallet's NFTs as the chain reports them
NftBegin(c, u, owned) ==
    /\ Caller(c, u)
    /\ LET call == [calls[c] EXCEPT !.kind = "check_nfts", !.user = u,
                                    !.snap = db.key_count[u], !.owned = owned]
       IN calls' = [calls EXCEPT ![c] =
                        IF owned = {} THEN Finish(call, "no_nfts")
                        ELSE [call EXCEPT !.pc = "n_scan"]]
    /\ UNCHANGED <<db, counter_lock, clock, reinitialized, key0, reply, retry>>

\* check_nfts_for_user lines 78-102: the loop over owned_nfts
NftScan(c) ==
    /\ calls[c].pc = "n_scan"
    /\ LET new == {n \in calls[c].owned : ~RecordedNft(db, calls[c].user, n)}
       IN calls' = [calls EXCEPT ![c] =
                        IF new = {} THEN Finish(@, "no_new")
                        ELSE [@ EXCEPT !.pc = "n_commit", !.new_nfts = new]]
    /\ UNCHANGED <<db, counter_lock, clock, reinitialized, key0, reply, retry>>

\* check_nfts_for_user lines 105-113: key_count += keys_to_add, db.commit()
NftCommit(c) ==
    /\ calls[c].pc = "n_commit"
    /\ db' = [db EXCEPT !.user_nft = @ \o NftRows(calls[c].user, SetToSeq(calls[c].new_nfts)),
                        !.key_count[calls[c].user] =
                            calls[c].snap + KeysToAdd(Cardinality(calls[c].new_nfts))]
    /\ calls' = [calls EXCEPT ![c] =
                    Finish([@ EXCEPT !.keys_earned = KeysToAdd(Cardinality(calls[c].new_nfts))],
                           "recorded")]
    /\ UNCHANGED <<counter_lock, clock, reinitialized, key0, reply, retry>>

\* ------------------------------------------------------------ pool upkeep
\* BaseModelC.delete on a Box found by model.get (not deleted)
DeleteBox(p) ==
    /\ ~db.boxes[p].deleted
    /\ ~BoxRowLocked(p)
    /\ db' = [db EXCEPT !.boxes[p].deleted = TRUE]
    /\ UNCHANGED <<counter_lock, calls, clock, reinitialized, key0, reply, retry>>

\* initialize_system: ON CONFLICT (id) DO UPDATE SET next_position = 1, total_boxes = 50000
CounterReset(bc) == [bc EXCEPT !.next_position = 1, !.total_boxes = TOTAL_BOXES]

InitializeSystem ==
    /\ counter_lock = NULL
    /\ db' = [db EXCEPT !.box_counter = CounterReset(@)]
    /\ reinitialized' = TRUE
    /\ UNCHANGED <<counter_lock, calls, clock, key0, reply, retry>>

\* ------------------------------------------------------------ specification
\* rows left by two earlier add_social calls of user 1
TwoLinks == <<[user_id |-> 1, platform |-> "twitter", deleted |-> FALSE],
              [user_id |-> 1, platform |-> "discord", deleted |-> FALSE]>>

\* social rows present before the first request
SeededSocials == {<<>>, TwoLinks}

\* initialize_system has been run once on the pool seeded by populate_boxes;
\* total_boxes is the number of boxes seeded (both 50000 in the source)
InitWith(keys, boxes, socials) ==
    /\ db = [key_count |-> keys,
             box_counter |-> [next_position |-> 1, total_boxes |-> Len(boxes)],
             boxes |-> boxes,
             user_social |-> socials,
             user_nft |-> <<>>]
    /\ key0 = keys
    /\ counter_lock = NULL
    /\ calls = [c \in Calls |-> NewCall]
    /\ clock = 0
    /\ reinitialized = FALSE
    /\ reply = NoReply
    /\ retry = NoRetry

Init == \E keys \in [Users -> 0..MaxKeys], socials \in SeededSocials :
            InitWith(keys, [p \in Positions |-> NewBox], socials)

Next ==
    \/ \E c \in Calls, u \in Users : OpenBegin(c, u)
    \/ \E c \in Calls, fault \in BOOLEAN : OpenCounter(c, fault)
    \/ \E c \in Calls, fault \in BOOLEAN : OpenBoxUpdate(c, fault)
    \/ \E c \in Calls, fault \in BOOLEAN : OpenCommit(c, fault)
    \/ \E c \in Calls, fault \in BOOLEAN : OpenPost(c, fault)
    \/ \E p \in Positions : DeleteBox(p)
    \/ InitializeSystem
    \/ \E c \in Calls, u \in Users, platform \in Platforms : SocialBegin(c, u, platform)
    \/ \E c \in Calls : SocialInsert(c)
    \/ \E c \in Calls : SocialCount(c)
    \/ \E c \in Calls : SocialAward(c)
    \/ \E c \in Calls, u \in Users, owned \in SUBSET Nfts : NftBegin(c, u, owned)
    \/ \E c \in Calls : NftScan(c)
    \/ \E c \in Calls : NftCommit(c)

Spec == Init /\ [][Next]_vars

\* the pool alone: claims racing with soft deletion and re-initialisation
NextPool ==
    \/ \E c \in Calls, u \in Users : OpenBegin(c, u)
    \/ \E c \in Calls, fault \in BOOLEAN : OpenCounter(c, fault)
    \/ \E c \in Calls, fault \in BOOLEAN : OpenBoxUpdate(c, fault)
    \/ \E c \in Calls, fault \in BOOLEAN : OpenCommit(c, fault)
    \/ \E c \in Calls, fault \in BOOLEAN : OpenPost(c, fault)
    \/ \E p \in Positions : DeleteBox(p)
    \/ InitializeSystem

InitPool == \E keys \in [Users -> 0..MaxKeys] :
                InitWith(keys, [p \in Positions |-> NewBox], <<>>)

SpecPool == InitPool /\ [][NextPool]_vars

\* N distinct users, one claim each, against a pool whose unopened boxes are 1..M
RaceBegin(c, u) == OpenBegin(c, u) /\ \A b \in Calls : calls[b].user # u

NextRace ==
    \/ \E c \in Calls, u \in Users : RaceBegin(c, u)
    \/ \E c \in Calls, fault \in BOOLEAN : OpenCounter(c, fault)
    \/ \E c \in Calls, fault \in BOOLEAN : OpenBoxUpdate(c, fault)
    \/ \E c \in Calls, fault \in BOOLEAN : OpenCommit(c, fault)
    \/ \E c \in Calls, fault \in BOOLEAN : OpenPost(c, fault)

InitRace == \E keys \in [Users -> 1..MaxKeys], m \in 0..NumBoxes :
                InitWith(keys, [p \in 1..m |-> NewBox], <<>>)

SpecRace == InitRace /\ [][NextRace]_vars

\* the key ledger alone: claims racing with the two award handlers, the store
\* answering every statement; user 1 has linked two of the three platforms
NextKeys ==
    \/ \E c \in Calls, u \in Users : OpenBegin(c, u)
    \/ \E c \in Calls : OpenCounter(c, FALSE)
    \/ \E c \in Calls : OpenBoxUpdate(c, FALSE)
    \/ \E c \in Calls : OpenCommit(c, FALSE)
    \/ \E c \in Calls : OpenPost(c, FALSE)
    \/ \E c \in Calls, u \in Users, platform \in Platforms : SocialBegin(c, u, platform)
    \/ \E c \in Calls : SocialInsert(c)
    \/ \E c \in Calls : SocialCount(c)
    \/ \E c \in Calls : SocialAward(c)
    \/ \E c \in Calls, u \in Users, owned \in SUBSET Nfts : NftBegin(c, u, owned)
    \/ \E c \in Calls : NftScan(c)
    \/ \E c \in Calls : NftCommit(c)

InitKeys == \E keys \in [Users -> 0..MaxKeys] :
                InitWith(keys, [p \in Positions |-> NewBox], TwoLinks)

SpecKeys == InitKeys /\ [][NextKeys]_vars

\* ------------------------------------------------------------ calculate_user_keys
MaxDup == 2
MaxUnused == 11

\* lines 33-34: LEFT JOIN t ON u.id = t.user_id AND t.deleted = false; a user
\* with no such row is joined to one all-NULL row
LeftJoin(rows, u) ==
    LET live == {i \in 1..Len(rows) : rows[i].user_id = u /\ rows[i].deleted = FALSE}
    IN IF live = {} THEN {NULL} ELSE live

\* lines 32-36: the rows of users x user_social x user_nft grouped under u.id
JoinedRows(d, u) == LeftJoin(d.user_social, u) \X LeftJoin(d.user_nft, u)

SocialPlatforms_CountsRows(d, u) ==
    Cardinality({j \in JoinedRows(d, u) :
                    /\ j[1] # NULL
                    /\ d.user_social[j[1]].platform \in valid_platforms
                    /\ d.user_social[j[1]].deleted = FALSE})

\* lines 28-29: COUNT(DISTINCT CASE WHEN us.platform IN (...) AND us.deleted = false
\* THEN us.platform END)
SocialPlatforms(d, u) ==
    Cardinality({d.user_social[j[1]].platform :
                    j \in {x \in JoinedRows(d, u) :
                              /\ x[1] # NULL
                              /\ d.user_social[x[1]].platform \in valid_platforms
                              /\ d.user_social[x[1]].deleted = FALSE}})

\* line 30: COUNT(CASE WHEN un.used = false AND un.deleted = false THEN 1 END)
UnusedNftCount(d, u) ==
    Cardinality({j \in JoinedRows(d, u) :
                    /\ j[2] # NULL
                    /\ d.user_nft[j[2]].used = FALSE
                    /\ d.user_nft[j[2]].deleted = FALSE})

\* lines 58-63: 0 keys for no NFT, 2 for one, then one per NFT up to 10
NftKeys(unused_nfts) ==
    IF unused_nfts = 0 THEN 0
    ELSE IF unused_nfts = 1 THEN 2
    ELSE IF unused_nfts < 10 THEN unused_nfts ELSE 10

\* lines 49-76: the dictionary returned
calculate_user_keys(d, u) ==
    LET social_platforms == SocialPlatforms(d, u)
        unused_nfts == UnusedNftCount(d, u)
        social_tasks_completed == social_platforms >= 3
        social_keys == IF social_tasks_completed THEN 1 ELSE 0
        nft_keys == NftKeys(unused_nfts)
    IN [social_keys |-> social_keys,
        nft_keys |-> nft_keys,
        total_available |-> social_keys + nft_keys,
        social_completed |-> social_tasks_completed,
        nft_count |-> unused_nfts]

\* one call of calculate_user_keys for user u on the committed rows
CalculateUserKeys(u) ==
    /\ reply' = [op |-> "calculate_user_keys", user |-> u,
                 result |-> calculate_user_keys(db, u)]
    /\ UNCHANGED <<db, counter_lock, calls, clock, reinitialized, key0, retry>>

\* the order the seeded social rows are inserted in
PlatformOrder == <<"twitter", "discord", "telegram", "facebook">>

Copies(n, row) == [i \in 1..n |-> row]

RECURSIVE SocialSeed(_, _, _, _)
\* user_social rows of u: live[p] rows per platform p, and one soft-deleted
\* row for each platform in dead
SocialSeed(u, live, dead, k) ==
    IF k = 0 THEN <<>>
    ELSE LET p == PlatformOrder[k]
         IN SocialSeed(u, live, dead, k - 1)
              \o Copies(live[p], [user_id |-> u, platform |-> p, deleted |-> FALSE])
              \o (IF p \in dead THEN <<[user_id |-> u, platform |-> p, deleted |-> TRUE]>>
                  ELSE <<>>)

\* user_nft rows of u: unused live rows, then used rows, then soft-deleted rows
NftSeed(u, unused, used, gone) ==
    [i \in 1..(unused + used + gone) |->
        [user_id |-> u, nft |-> i,
         used |-> (i > unused /\ i <= unused + used),
         deleted |-> (i > unused + used)]]

RECURSIVE OtherUsersSocial(_)
\* every user but user 1 has linked the three platforms
OtherUsersSocial(u) ==
    IF u <= 1 THEN <<>>
    ELSE OtherUsersSocial(u - 1) \o SocialSeed(u, [p \in Platforms |-> IF p \in valid_platforms THEN 1 ELSE 0], {}, Len(PlatformOrder))

RECURSIVE OtherUsersNft(_)
\* every user but user 1 has one unused NFT on record
OtherUsersNft(u) ==
    IF u <= 1 THEN <<>> ELSE OtherUsersNft(u - 1) \o NftSeed(u, 1, 0, 0)

\* the store holding the given user_social and user_nft rows
InitRows(socials, nfts) ==
    /\ db = [key_count |-> [u \in Users |-> 0],
             box_counter |-> [next_position |-> 1, total_boxes |-> NumBoxes],
             boxes |-> [p \in Positions |-> NewBox],
             user_social |-> socials,
             user_nft |-> nfts]
    /\ key0 = [u \in Users |-> 0]
    /\ counter_lock = NULL
    /\ calls = [c \in Calls |-> NewCall]
    /\ clock = 0
    /\ reinitialized = FALSE
    /\ reply = NoReply
    /\ retry = NoRetry

InitLedger ==
    \E live \in [Platforms -> 0..MaxDup], dead \in SUBSET valid_platforms,
       unused \in 0..MaxUnused, used \in 0..1, gone \in 0..1 :
        InitRows(SocialSeed(1, live, dead, Len(PlatformOrder)) \o OtherUsersSocial(NumUsers),
                 NftSeed(1, unused, used, gone) \o OtherUsersNft(NumUsers))

NextLedger == \E u \in Users : CalculateUserKeys(u)

SpecLedger == InitLedger /\ [][NextLedger]_vars

\* ------------------------------------------------------------ sequential claims
\* one user sending open_box requests one after the other: a request is sent
\* when the previous response has arrived
SeqBegin(c) == OpenBegin(c, 1) /\ \A b \in Calls : calls[b].pc \in {"idle", "done"}

NextSeq ==
    \/ \E c \in Calls : SeqBegin(c)
    \/ \E c \in Calls : OpenCounter(c, FALSE)
    \/ \E c \in Calls : OpenBoxUpdate(c, FALSE)
    \/ \E c \in Calls : OpenCommit(c, FALSE)
    \/ \E c \in Calls : OpenPost(c, FALSE)

InitSeq == \E keys \in [Users -> 0..MaxKeys], m \in 0..NumBoxes, socials \in SeededSocials :
                InitWith(keys, [p \in 1..m |-> NewBox], socials)

SpecSeq == InitSeq /\ [][NextSeq]_vars

\* ------------------------------------------------------------ scheduling
\* every request runs in its own worker and the store grants a freed row lock
\* to a waiting statement: a step of open_box that stays possible is
\* eventually taken (nothing is assumed of the award handlers)
FairKeys ==
    \A c \in Calls :
        /\ WF_vars(OpenCounter(c, FALSE))
        /\ WF_vars(OpenBoxUpdate(c, FALSE))
        /\ WF_vars(OpenCommit(c, FALSE))
        /\ WF_vars(OpenPost(c, FALSE))

\* every user holds MaxKeys keys; user 1 has linked two of the three platforms
InitLive == InitWith([u \in Users |-> MaxKeys], [p \in Positions |-> NewBox], TwoLinks)

SpecLive == InitLive /\ [][NextKeys]_vars /\ FairKeys

\* ------------------------------------------------------------ retry_db_operation
\* default of the decorator's max_retries parameter
max_retries == 3

\* positional arguments the wrapped function is called with: none (a route
\* handler, called by keyword), the session alone, (user, session) as the
\* service methods take them, (session, model) as the crud functions do
ArgShapes == {<<>>, <<"db">>, <<"user", "db">>, <<"db", "model">>}

\* how one execution of the wrapped function ends: it returns, or raises an
\* OperationalError/DisconnectionError whose message holds a connection
\* keyword, one whose message holds none, or any other exception
Endings == {"ok", "connection", "operational", "other"}

\* lines 50, 69: `args and hasattr(args[1], 'rollback')` indexes the second
\* positional argument; with exactly one it raises IndexError in the handler
RollbackRaises(args) == Len(args) = 1

\* lines 50-52, 69-71: the session is rolled back when it is args[1]
RollsBack(args) == Len(args) >= 2 /\ args[2] = "db"

\* lines 42-43: a connection keyword matched and attempt < max_retries
ShouldRetry(ending, attempt) == ending = "connection" /\ attempt < max_retries

\* the wrapper is entered
RetryCall(args) ==
    /\ retry.pc = "idle"
    /\ retry' = [retry EXCEPT !.pc = "running", !.args = args]
    /\ UNCHANGED <<db, counter_lock, calls, clock, reinitialized, key0, reply>>

\* lines 24-78, one iteration of `for attempt in range(max_retries + 1)`: func
\* runs; its commit, if it issued one, took effect (committed) or not
RetryAttempt(ending, committed) ==
    /\ retry.pc = "running"
    /\ LET ran == [retry EXCEPT !.attempts = @ + 1,
                                !.commits = @ + (IF committed THEN 1 ELSE 0),
                                !.last = ending,
                                !.only_transient = @ /\ ending = "connection"]
           raised(r, what) == [r EXCEPT !.pc = "done", !.outcome = what]
       IN retry' =
            IF ending = "ok" THEN raised(ran, "returned")
            ELSE IF ending = "other"
            THEN IF RollbackRaises(ran.args) THEN raised(ran, "IndexError")
                 ELSE raised([ran EXCEPT !.rolled_back = RollsBack(ran.args)], "reraised")
            ELSE IF ShouldRetry(ending, ran.attempt)
            THEN IF RollbackRaises(ran.args) THEN raised(ran, "IndexError")
                 ELSE LET again == [ran EXCEPT !.rolled_back = RollsBack(ran.args),
                                               !.retried_after = @ \cup {ending},
                                               !.attempt = @ + 1]
                      IN IF again.attempt <= max_retries THEN again
                         ELSE raised(again, "last_exception")
            ELSE raised([ran EXCEPT !.rolled_back = FALSE], "http_503")
    /\ UNCHANGED <<db, counter_lock, calls, clock, reinitialized, key0, reply>>

InitRetry == InitWith([u \in Users |-> 0], [p \in Positions |-> NewBox], <<>>)

NextRetry ==
    \/ \E args \in ArgShapes : RetryCall(args)
    \/ \E ending \in Endings, committed \in BOOLEAN : RetryAttempt(ending, committed)

SpecRetry == InitRetry /\ [][NextRetry]_vars

\* ------------------------------------------------------------ get_box_opening_stats
\* Box.reward_type as populate_boxes assigns it
RewardTypes == {"standard_nft", "apecoin", "rare_nft", "apefest_ticket"}

\* WHERE deleted = false
LiveBoxes(boxes) == {p \in DOMAIN boxes : boxes[p].deleted = FALSE}

RewardRows_WithDeleted(boxes) == {p \in DOMAIN boxes : boxes[p].is_opened = TRUE}

\* reward_stats: FROM boxes WHERE is_opened = true AND deleted = false
RewardRows(boxes) == {p \in LiveBoxes(boxes) : boxes[p].is_opened = TRUE}

\* lines 328-357 and 364-377: the stats row and the dictionary built from it
get_box_opening_stats(boxes) ==
    LET opened == {p \in LiveBoxes(boxes) : boxes[p].is_opened = TRUE}
        available == {p \in LiveBoxes(boxes) : boxes[p].is_opened = FALSE}
        rewarded == RewardRows(boxes)
    IN [total_boxes |-> Cardinality(LiveBoxes(boxes)),
        opened_boxes |-> Cardinality(opened),
        available_boxes |-> Cardinality(available),
        next_box_position |->
            IF available = {} THEN NULL
            ELSE CHOOSE p \in available : \A q \in available : p <= q,
        reward_distribution |->
            [t \in {boxes[p].reward_type : p \in rewarded} |->
                Cardinality({p \in rewarded : boxes[p].reward_type = t})]]

\* one call of get_box_opening_stats on the committed rows
GetBoxOpeningStats ==
    /\ reply' = [op |-> "get_box_opening_stats", result |-> get_box_opening_stats(db.boxes)]
    /\ UNCHANGED <<db, counter_lock, calls, clock, reinitialized, key0, retry>>

\* a box row in any state the handlers leave it in: unopened or opened by a
\* user, soft-deleted or not, carrying the reward it was seeded with
BoxRows ==
    {[is_opened |-> o, opened_by_user_id |-> IF o THEN 1 ELSE NULL,
      opened_at |-> IF o THEN 1 ELSE NULL, deleted |-> d, reward_type |-> t] :
        o \in BOOLEAN, d \in BOOLEAN, t \in RewardTypes}

InitStats ==
    \E boxes \in [Positions -> BoxRows] :
        /\ db = [key_count |-> [u \in Users |-> 0],
                 box_counter |-> [next_position |-> 1, total_boxes |-> NumBoxes],
                 boxes |-> boxes,
                 user_social |-> <<>>,
                 user_nft |-> <<>>]
        /\ key0 = [u \in Users |-> 0]
        /\ counter_lock = NULL
        /\ calls = [c \in Calls |-> NewCall]
        /\ clock = 0
        /\ reinitialized = FALSE
        /\ reply = NoReply
        /\ retry = NoRetry

NextStats == GetBoxOpeningStats

SpecStats == InitStats /\ [][NextStats]_vars

\* ------------------------------------------------------------ responses of open_box
\* open_box lines 204-217 and 255-261: the HTTPException (status, detail) a
\* failed claim raises; assign_next_box_atomically returns None both when the
\* counter is exhausted (line 100) and when the box UPDATE matches no row
\* (line 122), and open_box turns either None into the same 404
Response(result) ==
    CASE result = "no_keys" ->
            [status |-> 400, detail |-> "No keys available. Complete social tasks or verify NFT ownership to earn keys."]
      [] result = "no_boxes" ->
            [status |-> 404, detail |-> "No boxes available. All boxes have been opened!"]
      [] result = "db_error" ->
            [status |-> 500, detail |-> "Unexpected error during box opening"]
      [] OTHER -> [status |-> 200, detail |-> "Box opened successfully"]

\* why a returned claim failed: line 204, line 98-100, or line 120-122
FailureOf(call) ==
    IF call.result = "no_keys" THEN "no_keys"
    ELSE IF call.result = "no_boxes" /\ call.pos = NULL THEN "pool_exhausted"
    ELSE IF call.result = "no_boxes" THEN "box_unavailable"
    ELSE "none"

\* claims against a pool of any size, boxes being soft-deleted and the counter
\* re-initialised beside them
NextOutcomes ==
    \/ \E c \in Calls, u \in Users : OpenBegin(c, u)
    \/ \E c \in Calls, fault \in BOOLEAN : OpenCounter(c, fault)
    \/ \E c \in Calls, fault \in BOOLEAN : OpenBoxUpdate(c, fault)
    \/ \E c \in Calls, fault \in BOOLEAN : OpenCommit(c, fault)
    \/ \E c \in Calls, fault \in BOOLEAN : OpenPost(c, fault)
    \/ \E p \in DOMAIN db.boxes : DeleteBox(p)
    \/ InitializeSystem

InitOutcomes == \E keys \in [Users -> 0..MaxKeys], m \in 0..NumBoxes :
                    InitWith(keys, [p \in 1..m |-> NewBox], <<>>)

SpecOutcomes == InitOutcomes /\ [][NextOutcomes]_vars

\* ------------------------------------------------------------ dashboard: POST /user-socials
\* create_user_social_with_validation for a schema carrying no handle:
\* validate_unique_social_handle returns at once (validators.py lines 19-20),
\* no check looks at the user's platforms, and db_item.save(db) commits the row
CreateUserSocial(c, u, platform) ==
    /\ Caller(c, u)
    /\ db' = [db EXCEPT !.user_social =
                 Append(@, [user_id |-> u, platform |-> platform, deleted |-> FALSE])]
    /\ calls' = [calls EXCEPT ![c] =
                    Finish([@ EXCEPT !.kind = "create_user_social", !.user = u], "created")]
    /\ UNCHANGED <<counter_lock, clock, reinitialized, key0, reply, retry>>

\* social links made through add_social and through the dashboard
NextSocial ==
    \/ \E c \in Calls, u \in Users, platform \in Platforms : SocialBegin(c, u, platform)
    \/ \E c \in Calls : SocialInsert(c)
    \/ \E c \in Calls : SocialCount(c)
    \/ \E c \in Calls : SocialAward(c)
    \/ \E c \in Calls, u \in Users, platform \in Platforms : CreateUserSocial(c, u, platform)

SpecSocial == InitKeys /\ [][NextSocial]_vars

\* ------------------------------------------------------------ mark_user_nfts_as_used
MaxMark == 2

\* rows of user_nft locked by a mark_user_nfts_as_used statement whose
\* transaction has not ended
NftRowLocked(i) == \E b \in Calls : calls[b].pc = "m_return" /\ i \in calls[b].marked

NftsToMark_IgnoresLocks(d, u, limit) ==
    LET free == UnusedNfts(d, u)
    IN {i \in free : Cardinality({j \in free : j < i}) < limit}

\* lines 155-164: the user's unused, non-deleted rows that no other
\* transaction has locked (SKIP LOCKED), the first :limit of them by created_at
\* (rows are stored in the order they were created)
NftsToMark(d, u, limit) ==
    LET free == {i \in UnusedNfts(d, u) : ~NftRowLocked(i)}
    IN {i \in free : Cardinality({j \in free : j < i}) < limit}

\* lines 154-173: the statement runs; its UPDATE is part of the caller's
\* open transaction and holds the row locks
MarkStatement(c, u, n) ==
    /\ Caller(c, u)
    /\ calls' = [calls EXCEPT ![c] =
                    [@ EXCEPT !.kind = "mark_nfts", !.user = u, !.pc = "m_return",
                              !.nft_count_to_use = n, !.marked = NftsToMark(db, u, n)]]
    /\ UNCHANGED <<db, counter_lock, clock, reinitialized, key0, reply, retry>>

\* the HTTPException of line 184 as the handler's `except Exception` (lines
\* 192-194) lets it out
ShortageError == [status |-> 500, detail |-> "Error updating NFT usage status"]

\* lines 175-194: too few rows marked raises inside the try block, and the
\* request's session is rolled back; otherwise the rows are returned and the
\* caller's commit makes them visible
MarkReturn(c) ==
    /\ calls[c].pc = "m_return"
    /\ IF Cardinality(calls[c].marked) < calls[c].nft_count_to_use
       THEN /\ calls' = [calls EXCEPT ![c] = Finish([@ EXCEPT !.marked = {}], "mark_failed")]
            /\ reply' = [op |-> "mark_user_nfts_as_used", result |-> ShortageError]
            /\ db' = Rollback(db, calls[c])
       ELSE /\ calls' = [calls EXCEPT ![c] = Finish(@, "marked")]
            /\ reply' = [op |-> "mark_user_nfts_as_used", result |-> [status |-> 200, detail |-> "ok"]]
            /\ db' = [db EXCEPT !.user_nft =
                         [i \in DOMAIN @ |-> IF i \in calls[c].marked
                                             THEN [@[i] EXCEPT !.used = TRUE] ELSE @[i]]]
    /\ UNCHANGED <<counter_lock, clock, reinitialized, key0, retry>>

\* ------------------------------------------------------------ PUT / PATCH user_nft/{id}
\* update_item lines 200-217 on a UserNFT (a BaseModelC): PUT dumps every
\* field of UserNFTCreateSchema, `used` at its default False when the request
\* leaves it out; PATCH drops unset fields and fields equal to their default
UsedAfterUpdate(old, partial, used) ==
    IF partial THEN (IF used = "true" THEN TRUE ELSE old)
    ELSE used = "true"

\* lines 194-196: model.get finds the row unless it is soft-deleted
UpdateUserNft(i, partial, used) ==
    /\ db.user_nft[i].deleted = FALSE
    /\ ~NftRowLocked(i)
    /\ db' = [db EXCEPT !.user_nft[i].used = UsedAfterUpdate(@, partial, used)]
    /\ UNCHANGED <<counter_lock, calls, clock, reinitialized, key0, reply, retry>>

\* the NFT rows of user 1 before the first request
InitNft ==
    \E unused \in 0..MaxMark, used \in 0..1, gone \in 0..1 :
        InitRows(<<>>, NftSeed(1, unused, used, gone))

\* marking alone
NextMark ==
    \/ \E c \in Calls, u \in Users, n \in 1..MaxMark : MarkStatement(c, u, n)
    \/ \E c \in Calls : MarkReturn(c)

SpecMark == InitNft /\ [][NextMark]_vars

\* every operation that writes user_nft
NextNft ==
    \/ \E c \in Calls, u \in Users, n \in 1..MaxMark : MarkStatement(c, u, n)
    \/ \E c \in Calls : MarkReturn(c)
    \/ \E i \in DOMAIN db.user_nft, partial \in BOOLEAN, used \in {"unset", "true", "false"} :
          UpdateUserNft(i, partial, used)
    \/ \E c \in Calls, u \in Users, owned \in SUBSET Nfts : NftBegin(c, u, owned)
    \/ \E c \in Calls : NftScan(c)
    \/ \E c \in Calls : NftCommit(c)

SpecNft == InitNft /\ [][NextNft]_vars

\* ------------------------------------------------------------ get_current_user
\* wallet addresses: one more than there are users
Wallets == 1..(NumUsers + 1)

\* a bearer token as jwt.decode sees it: parseable or not, signed with
\* SECRET_KEY or not, past its exp or not, and the wallet_address claim (NULL
\* when the payload has none)
Tokens == [well_formed : BOOLEAN, signed : BOOLEAN, expired : BOOLEAN,
           wallet_address : Wallets \cup {NULL}]

Http(code, text) == [raised |-> TRUE, status |-> code, detail |-> text]

\* verify_token lines 102-117: the payload, or the HTTPException raised for
\* jwt.ExpiredSignatureError and for any other jwt.PyJWTError
verify_token(token) ==
    IF ~token.well_formed \/ ~token.signed THEN Http(401, "Invalid token")
    ELSE IF token.expired THEN Http(401, "Token expired")
    ELSE [raised |-> FALSE, wallet_address |-> token.wallet_address]

\* line 30: db.query(User).filter(User.wallet_address == wallet_address).first()
UserByWallet(d, wallet_address) ==
    LET found == {u \in Users : d.wallet_address[u] = wallet_address}
    IN IF found = {} THEN NULL ELSE CHOOSE u \in found : \A v \in found : u <= v

HandlerError_PassesThrough(exc) == exc

\* lines 37-46: verify_token has already turned jwt.ExpiredSignatureError into
\* an HTTPException, so every exception raised in the try block, the 404 of
\* line 32 included, is caught by `except Exception` and replaced
HandlerError(exc) == Http(401, "Invalid token")

\* get_current_user lines 21-46
get_current_user(d, token) ==
    LET payload == verify_token(token)
    IN IF payload.raised THEN HandlerError(payload)
       ELSE IF payload.wallet_address = NULL THEN HandlerError(Http(401, "Invalid token"))
       ELSE IF UserByWallet(d, payload.wallet_address) = NULL
            THEN HandlerError(Http(404, "User not found"))
       ELSE [raised |-> FALSE, user |-> UserByWallet(d, payload.wallet_address)]

\* one request carrying the token
GetCurrentUser(token) ==
    /\ reply' = [op |-> "get_current_user", token |-> token,
                 result |-> get_current_user(db, token)]
    /\ UNCHANGED <<db, counter_lock, calls, clock, reinitialized, key0, retry>>

\* users.wallet_address: any assignment of wallets to the users
InitAuth ==
    \E wallets \in [Users -> Wallets] :
        /\ db = [key_count |-> [u \in Users |-> 0],
                 wallet_address |-> wallets,
                 box_counter |-> [next_position |-> 1, total_boxes |-> NumBoxes],
                 boxes |-> [p \in Positions |-> NewBox],
                 user_social |-> <<>>,
                 user_nft |-> <<>>]
        /\ key0 = [u \in Users |-> 0]
        /\ counter_lock = NULL
        /\ calls = [c \in Calls |-> NewCall]
        /\ clock = 0
        /\ reinitialized = FALSE
        /\ reply = NoReply
        /\ retry = NoRetry

NextAuth == \E token \in Tokens : GetCurrentUser(token)

SpecAuth == InitAuth /\ [][NextAuth]_vars

\* ------------------------------------------------------------ soft delete / restore
\* BaseModelC.get -> find_one -> find: the row with that id, soft-deleted
\* rows only with include_deleted; NULL when there is none
Get(d, id, include_deleted) ==
    IF id \in DOMAIN d.user_nft /\ (include_deleted \/ ~d.user_nft[id].deleted)
    THEN id ELSE NULL

\* crud.get_item_by_id
GetItemById(id, include_deleted) ==
    /\ reply' = [op |-> "get_item_by_id", id |-> id, result |-> Get(db, id, include_deleted)]
    /\ UNCHANGED <<db, counter_lock, calls, clock, reinitialized, key0, retry>>

\* crud.delete_item: BaseModelC.delete sets deleted and commits
DeleteItem(id) ==
    LET item == Get(db, id, FALSE) IN
    /\ reply' = [op |-> "delete_item", id |-> id, result |-> item]
    /\ db' = IF item = NULL THEN db ELSE [db EXCEPT !.user_nft[item].deleted = TRUE]
    /\ UNCHANGED <<counter_lock, calls, clock, reinitialized, key0, retry>>

\* getattr(item, 'deleted_at', None): no model declares a deleted_at column
\* or attribute, so the default None is what the test sees
deleted_at(d, item) == NULL

\* crud.restore_item: None unless the row exists and its deleted_at is set;
\* otherwise (no model has a restore method) deleted_at is set to None and
\* the row saved
RestoreItem(id) ==
    LET item == Get(db, id, TRUE) IN
    IF item = NULL \/ deleted_at(db, item) = NULL
    THEN /\ reply' = [op |-> "restore_item", id |-> id, result |-> NULL]
         /\ UNCHANGED <<db, counter_lock, calls, clock, reinitialized, key0, retry>>
    ELSE /\ reply' = [op |-> "restore_item", id |-> id, result |-> item]
         /\ UNCHANGED <<db, counter_lock, calls, clock, reinitialized, key0, retry>>

\* ids a request may name: every row and one id past the last row
ItemIds == 1..(MaxMark + 3)

NextCrud ==
    \/ \E id \in ItemIds, include_deleted \in BOOLEAN : GetItemById(id, include_deleted)
    \/ \E id \in ItemIds : DeleteItem(id)
    \/ \E id \in ItemIds : RestoreItem(id)

SpecCrud == InitNft /\ [][NextCrud]_vars

\* ------------------------------------------------------------ get_system_status
\* round(((next_pos - 1) / total) * 100, 2), in hundredths of a percent
Percentage(opened, total) == (2 * opened * 10000 + total) \div (2 * total)

\* the monitoring view, computed from the box_counter row alone
get_system_status(d) ==
    LET next_pos == d.box_counter.next_position
        total == d.box_counter.total_boxes
        remaining == total - (next_pos - 1)
    IN [next_position |-> next_pos,
        total_boxes |-> total,
        boxes_opened |-> next_pos - 1,
        boxes_remaining |-> remaining,
        completion_percentage |-> Percentage(next_pos - 1, total),
        status |-> IF remaining > 0 THEN "active" ELSE "completed"]

GetSystemStatus ==
    /\ reply' = [op |-> "get_system_status", result |-> get_system_status(db)]
    /\ UNCHANGED <<db, counter_lock, calls, clock, reinitialized, key0, retry>>

\* claims alone, by any users, against a freshly initialised pool
NextClaims ==
    \/ \E c \in Calls, u \in Users : OpenBegin(c, u)
    \/ \E c \in Calls, fault \in BOOLEAN : OpenCounter(c, fault)
    \/ \E c \in Calls, fault \in BOOLEAN : OpenBoxUpdate(c, fault)
    \/ \E c \in Calls, fault \in BOOLEAN : OpenCommit(c, fault)
    \/ \E c \in Calls, fault \in BOOLEAN : OpenPost(c, fault)
    \/ GetSystemStatus

InitClaims == \E keys \in [Users -> 0..MaxKeys], m \in 1..NumBoxes :
                  InitWith(keys, [p \in 1..m |-> NewBox], <<>>)

SpecClaims == InitClaims /\ [][NextClaims]_vars

\* claims racing with re-initialisation alone, the store answering every statement
NextReinit ==
    \/ \E c \in Calls, u \in Users : OpenBegin(c, u)
    \/ \E c \in Calls : OpenCounter(c, FALSE)
    \/ \E c \in Calls : OpenBoxUpdate(c, FALSE)
    \/ \E c \in Calls : OpenCommit(c, FALSE)
    \/ \E c \in Calls : OpenPost(c, FALSE)
    \/ InitializeSystem

SpecReinit == InitPool /\ [][NextReinit]_vars

\* ------------------------------------------------------------ properties
Succeeded(c) == calls[c].kind = "open_box" /\ calls[c].result = "success"
Committed(c) == calls[c].kind = "open_box" /\ calls[c].committed
Arrived == {c \in Calls : calls[c].pc # "idle"}
AwardedTo(u) == {c \in Calls : calls[c].user = u /\ calls[c].result \in {"awarded", "recorded"}}

\* C1: no position is returned by two successful open_box calls, and no box
\* row has its opened_by_user_id written by more than one call.
C1_NoDoubleAssignment ==
    /\ \A a, b \in Calls : (a # b /\ Succeeded(a) /\ Succeeded(b)) => calls[a].pos # calls[b].pos
    /\ \A p \in Positions : Cardinality({c \in Calls : Committed(c) /\ calls[c].pos = p}) <= 1

\* two users have each been given a box after the counter was reset under them
C1_Witness ==
    \E a, b \in Calls : /\ Succeeded(a) /\ Succeeded(b)
                        /\ calls[a].user # calls[b].user
                        /\ reinitialized

\* C2: N distinct users with a key each race for a pool whose unopened boxes
\* are 1..M, M < N, and no statement hits a storage fault: once all have
\* returned, exactly M succeeded, the others got 'No boxes available', and
\* the positions handed out are exactly 1..M.
PoolSize == Len(db.boxes)
C2_RaceForLastBoxes ==
    ( /\ \A c \in Arrived : calls[c].pc = "done" /\ calls[c].result # "db_error"
      /\ \A a, b \in Arrived : a # b => calls[a].user # calls[b].user
      /\ \A c \in Arrived : key0[calls[c].user] >= 1
      /\ PoolSize < Cardinality(Arrived) )
    => /\ Cardinality({c \in Arrived : Succeeded(c)}) = PoolSize
       /\ \A c \in Arrived : ~Succeeded(c) => calls[c].result = "no_boxes"
       /\ {calls[c].pos : c \in {x \in Arrived : Succeeded(x)}} = 1..PoolSize

\* every request has returned: all but one with a box, the last one refused
C2_Witness ==
    /\ Arrived = Calls
    /\ \A c \in Calls : calls[c].pc = "done" /\ calls[c].result # "db_error"
    /\ PoolSize = NumCalls - 1
    /\ Cardinality({c \in Calls : Succeeded(c)}) = PoolSize
    /\ \E c \in Calls : calls[c].result = "no_boxes"

\* C3: a user who starts with k keys and receives no award never has more
\* than k committed claims, and after s of them key_count is k - s.
C3_OneKeyPerClaim ==
    \A u \in Users :
        AwardedTo(u) = {} =>
            LET s == Cardinality({c \in Calls : Committed(c) /\ calls[c].user = u})
            IN s <= key0[u] /\ db.key_count[u] = key0[u] - s

\* C4: every user's committed key_count is >= 0.
C4_KeyCountNonNegative == \A u \in Users : db.key_count[u] >= 0

\* a user is down to 0 keys by a committed claim, with an award to them on record
C4_Witness ==
    \E c \in Calls : /\ Committed(c)
                     /\ db.key_count[calls[c].user] = 0
                     /\ AwardedTo(calls[c].user) # {}

\* C5: the step in which an open_box call fails for lack of keys or of boxes
\* leaves every committed row as it was.
C5_FailedClaimChangesNothing ==
    [][\A c \in Calls :
          (calls[c].result = "none" /\ calls'[c].result \in {"no_keys", "no_boxes"})
              => db' = db]_vars

\* a call that had advanced the counter in its transaction failed on the box
\* row, and the committed counter still points at that position
C5_Witness ==
    \E c \in Calls : /\ calls[c].result = "no_boxes"
                     /\ calls[c].pos # NULL
                     /\ db.box_counter.next_position = calls[c].pos

\* C6: an opened box has non-null opened_by_user_id and opened_at, keeps all
\* three fields for ever, and no claim that lands on it goes through.
C6_OpenedIsFinal ==
    [][/\ \A p \in Positions :
            db.boxes[p].is_opened =>
                /\ db.boxes[p].opened_by_user_id # NULL
                /\ db.boxes[p].opened_at # NULL
                /\ db.boxes'[p].is_opened
                /\ db.boxes'[p].opened_by_user_id = db.boxes[p].opened_by_user_id
                /\ db.boxes'[p].opened_at = db.boxes[p].opened_at
       /\ \A c \in Calls :
            (calls[c].pc = "box" /\ db.boxes[calls[c].pos].is_opened)
                => calls'[c].pc # "commit"]_vars

\* after a counter reset a claim landed on an opened box and was refused
C6_Witness ==
    \E c \in Calls : /\ calls[c].result = "no_boxes"
                     /\ calls[c].pos # NULL
                     /\ db.boxes[calls[c].pos].is_opened
                     /\ reinitialized

\* C7: the box a claim acquires is, at that instant, the lowest-positioned
\* box with is_opened = false and deleted = false.
C7_LowestAvailableFirst ==
    [][\A c \in Calls :
          (calls[c].pc = "box" /\ calls'[c].pc = "commit")
              => calls[c].pos = LowestAvailable(db.boxes)]_vars

\* a claim was given a box beyond position 1
C7_Witness == \E c \in Calls : Succeeded(c) /\ calls[c].pos > 1

\* C8: while the counter has not been reset, open_box reports 'No boxes
\* available' only when no unopened, non-deleted box remains.
C8_ExhaustedOnlyWhenEmpty ==
    [][\A c \in Calls :
          (calls[c].result = "none" /\ calls'[c].result = "no_boxes" /\ ~reinitialized)
              => Available(db.boxes) = {}]_vars

\* C9: an open_box call that ends with an error has committed nothing.
C9_ErrorMeansNoEffect ==
    \A c \in Calls :
        (calls[c].kind = "open_box" /\ calls[c].result \in {"no_keys", "no_boxes", "db_error"})
            => ~calls[c].committed

\* C10: every claim committed while the user held an unused, non-deleted NFT
\* marked exactly one of the user's NFTs used.
C10_NftKeyConsumed ==
    \A u \in Users :
        Cardinality({i \in 1..Len(db.user_nft) :
                        db.user_nft[i].user_id = u /\ db.user_nft[i].used})
            = Cardinality({c \in Calls : Committed(c) /\ calls[c].user = u /\ calls[c].had_nft})

KeysReply == reply.op = "calculate_user_keys"

\* C11: calculate_user_keys returns nft_keys computed from n = the number of
\* the user's user_nft rows with used = false and deleted = false (0 for
\* n = 0, 2 for n = 1, min(n, 10) otherwise), whatever social rows exist.
C11_NftKeysFromUnusedRows ==
    KeysReply =>
        LET n == Cardinality(UnusedNfts(db, reply.user))
        IN reply.result.nft_keys =
              (IF n = 0 THEN 0 ELSE IF n = 1 THEN 2 ELSE IF n < 10 THEN n ELSE 10)

LiveSocial(u, p) ==
    \E i \in 1..Len(db.user_social) :
        /\ db.user_social[i].user_id = u
        /\ db.user_social[i].platform = p
        /\ db.user_social[i].deleted = FALSE

\* C12: social_keys is 1 exactly when the user has a non-deleted user_social
\* row for each of twitter, discord and telegram, and 0 otherwise.
C12_SocialKeyStep ==
    KeysReply =>
        reply.result.social_keys =
            (IF \A p \in valid_platforms : LiveSocial(reply.user, p) THEN 1 ELSE 0)

\* the key is granted to a user holding duplicate rows and a link to another platform
C12_Witness ==
    /\ KeysReply
    /\ reply.user = 1
    /\ reply.result.social_keys = 1
    /\ Cardinality(ExistingSocial(db, 1, "twitter")) >= 2
    /\ LiveSocial(1, "facebook")

Returned == {c \in Calls : calls[c].pc = "done"}
Smaller(a, b) == IF a < b THEN a ELSE b

C14_ClaimsTerminate ==
    \A c \in Calls :
        (calls[c].kind = "open_box" /\ calls[c].pc # "done") ~> (calls[c].pc = "done")

\* a claim waits for the counter row while another claim holds it up to its commit
C14_Witness ==
    \E a, b \in Calls :
        /\ a # b
        /\ calls[a].kind = "open_box" /\ calls[a].pc = "counter"
        /\ counter_lock = b /\ calls[b].pc = "commit"

\* C15: retry_db_operation never runs the wrapped operation again once a
\* commit of it has taken effect.
C15_NoRerunAfterCommit == retry.commits >= 1 => retry.pc = "done"

\* C16: with the default settings, a wrapped function whose every attempt
\* fails with a transient connection error is attempted at most 3 times in
\* total, and the wrapper then raises the 503 error.
C16_AtMostThreeAttempts ==
    (retry.only_transient /\ retry.attempts >= 1)
        => /\ retry.attempts <= 3
           /\ retry.pc = "done" => retry.outcome = "http_503"

\* C17: only transient connection errors are retried; an OperationalError or
\* DisconnectionError without a connection keyword ends in a 503 after that
\* attempt, any other exception is re-raised unchanged after that attempt with
\* the session rolled back.
C17_OnlyTransientRetried ==
    /\ retry.retried_after \subseteq {"connection"}
    /\ retry.last = "operational" => retry.pc = "done" /\ retry.outcome = "http_503"
    /\ retry.last = "other" => /\ retry.pc = "done"
                               /\ retry.outcome = "reraised"
                               /\ retry.rolled_back

RECURSIVE SumOf(_)
SumOf(f) == IF DOMAIN f = {} THEN 0
            ELSE LET t == CHOOSE x \in DOMAIN f : TRUE
                 IN f[t] + SumOf([x \in DOMAIN f \ {t} |-> f[x]])

StatsReply == reply.op = "get_box_opening_stats"

\* C18: get_box_opening_stats returns total_boxes = opened_boxes +
\* available_boxes over the non-deleted boxes, opened_boxes = the number of
\* non-deleted boxes with is_opened = true, a reward_distribution whose counts
\* sum to opened_boxes, and the call changes no row.
C18_StatsConsistent ==
    /\ [](StatsReply =>
            /\ reply.result.total_boxes = Cardinality(LiveBoxes(db.boxes))
            /\ reply.result.total_boxes
                  = reply.result.opened_boxes + reply.result.available_boxes
            /\ reply.result.opened_boxes
                  = Cardinality({p \in DOMAIN db.boxes :
                                    db.boxes[p].is_opened /\ ~db.boxes[p].deleted})
            /\ SumOf(reply.result.reward_distribution) = reply.result.opened_boxes)
    /\ [][reply' # reply => db' = db]_vars

\* the statistics of a pool holding an opened box beside a soft-deleted opened box
C18_Witness ==
    /\ StatsReply
    /\ reply.result.opened_boxes >= 1
    /\ \E p \in DOMAIN db.boxes : db.boxes[p].is_opened /\ db.boxes[p].deleted

\* C19: a claim refused for lack of keys, one refused because the pool is
\* exhausted and one refused because the box at the assigned position is
\* missing or already opened are never answered with the same status and
\* detail.
C19_FailuresDistinguishable ==
    \A a, b \in Returned :
        (/\ FailureOf(calls[a]) # "none"
         /\ FailureOf(calls[b]) # "none"
         /\ FailureOf(calls[a]) # FailureOf(calls[b]))
            => Response(calls[a].result) # Response(calls[b].result)

\* C20: whatever add_social and create_user_social_with_validation calls have
\* run, in whatever interleaving, no user has two user_social rows with the
\* same platform.
C20_OnePlatformRowPerUser ==
    \A u \in Users, platform \in Platforms :
        Cardinality(ExistingSocial(db, u, platform)) <= 1

SocialKeysGranted(u) ==
    Cardinality({c \in Calls : /\ calls[c].kind = "add_social"
                               /\ calls[c].user = u
                               /\ calls[c].result = "awarded"})
AddSocialRunning(u) ==
    \E c \in Calls : /\ calls[c].kind = "add_social" /\ calls[c].user = u
                     /\ calls[c].pc # "done"

\* C21: once a user's add_social calls have returned, add_social has raised
\* key_count by 1 in total if the user is linked to twitter, discord and
\* telegram and by 0 otherwise; the key is never granted twice.
C21_SocialKeyGrantedOnce ==
    \A u \in Users :
        /\ SocialKeysGranted(u) <= 1
        /\ ~AddSocialRunning(u) =>
              (SocialKeysGranted(u) = 1 <=> \A p \in valid_platforms : LiveSocial(u, p))

\* C22: the used flag of a user_nft row only moves from false to true: no
\* step of mark_user_nfts_as_used, check_nfts_for_user or update_item sets a
\* used row back to unused.
C22_UsedNeverReverts ==
    [][\A i \in DOMAIN db.user_nft : db.user_nft[i].used => db'.user_nft[i].used]_vars

AuthReply == reply.op = "get_current_user"
GoodToken(t) ==
    /\ t.well_formed /\ t.signed /\ ~t.expired
    /\ t.wallet_address # NULL
    /\ \E u \in Users : db.wallet_address[u] = t.wallet_address

\* C23: get_current_user returns a user only for a token that verifies, is
\* unexpired, carries a wallet_address and names an existing user (and then a
\* user with that wallet); for every other token it fails with status 401.
C23_UserOnlyForGoodToken ==
    AuthReply =>
        IF GoodToken(reply.token)
        THEN /\ ~reply.result.raised
             /\ db.wallet_address[reply.result.user] = reply.token.wallet_address
        ELSE reply.result.raised /\ reply.result.status = 401

\* a valid, unexpired token naming a wallet no user has was refused
C23_Witness ==
    /\ AuthReply
    /\ reply.token.well_formed /\ reply.token.signed /\ ~reply.token.expired
    /\ reply.token.wallet_address # NULL
    /\ ~GoodToken(reply.token)
    /\ reply.result.raised

MarkCalls == {c \in Calls : calls[c].kind = "mark_nfts"}
FirstUnused(u, n) ==
    {i \in UnusedNfts(db, u) : Cardinality({j \in UnusedNfts(db, u) : j < i}) < n}

\* C24: a successful mark_user_nfts_as_used(user, n) marks exactly n rows,
\* all of them rows of that user that were unused and not deleted, and the n
\* earliest of them when no other transaction holds locks on the user's rows;
\* two calls never mark the same row.
C24_MarksExactlyN ==
    /\ [](/\ \A c \in MarkCalls : calls[c].result = "marked" =>
                /\ Cardinality(calls[c].marked) = calls[c].nft_count_to_use
                /\ \A i \in calls[c].marked :
                      /\ db.user_nft[i].user_id = calls[c].user
                      /\ db.user_nft[i].used /\ ~db.user_nft[i].deleted
          /\ \A a, b \in MarkCalls : a # b => calls[a].marked \cap calls[b].marked = {})
    /\ [][\A c \in Calls :
            (calls[c].pc = "idle" /\ calls'[c].pc = "m_return") =>
                /\ calls'[c].marked \subseteq UnusedNfts(db, calls'[c].user)
                /\ ((\A b \in Calls : calls[b].pc # "m_return")
                      /\ Cardinality(calls'[c].marked) = calls'[c].nft_count_to_use)
                    => calls'[c].marked = FirstUnused(calls'[c].user, calls'[c].nft_count_to_use)]_vars

\* two calls of one user have each marked a row of their own
C24_Witness ==
    \E a, b \in MarkCalls :
        /\ a # b /\ calls[a].user = calls[b].user
        /\ calls[a].result = "marked" /\ calls[b].result = "marked"
        /\ calls[a].marked # {} /\ calls[b].marked # {}

\* C25: with fewer than n unused, non-deleted NFTs the call reports the
\* shortage as the 400 'Not enough unused NFTs' error and leaves no row of the
\* user marked by it.
C25_ShortageIsA400 ==
    /\ (reply.op = "mark_user_nfts_as_used" /\ reply.result.status # 200)
          => reply.result.status = 400
    /\ \A c \in MarkCalls : calls[c].result = "mark_failed" => calls[c].marked = {}

\* C26: restore_item right after a successful delete_item of the same id
\* returns the item, and the row is then not deleted and found by
\* get_item_by_id without include_deleted.
C26_RestoreUndoesDelete ==
    [][(/\ reply.op = "delete_item" /\ reply.result # NULL
        /\ reply'.op = "restore_item" /\ reply'.id = reply.id)
       => /\ reply'.result = reply.id
          /\ ~db'.user_nft[reply.id].deleted
          /\ Get(db', reply.id, FALSE) = reply.id]_vars

OpenedBoxes == {p \in DOMAIN db.boxes : db.boxes[p].is_opened}

\* C27: after initialize_system on an all-unopened pool, in every committed
\* state reached by open_box calls alone the opened boxes are the positions
\* 1 .. next_position - 1, so boxes_opened of get_system_status is the number
\* of opened boxes, and next_position is at most total_boxes + 1.
C27_CounterMatchesOpened ==
    /\ OpenedBoxes = 1..(db.box_counter.next_position - 1)
    /\ get_system_status(db).boxes_opened = Cardinality(OpenedBoxes)
    /\ db.box_counter.next_position <= db.box_counter.total_boxes + 1

\* two claims have committed and the status was read afterwards
C27_Witness ==
    /\ Cardinality(OpenedBoxes) >= 2
    /\ reply.op = "get_system_status" /\ reply.result.boxes_opened >= 2

RECURSIVE KeysEarned(_)
KeysEarned(S) ==
    IF S = {} THEN 0
    ELSE LET c == CHOOSE x \in S : TRUE IN calls[c].keys_earned + KeysEarned(S \ {c})
CallsOf(u) == {c \in Calls : calls[c].user = u}

\* C28: once a user's requests have returned, key_count is the initial
\* key_count plus every key awarded by add_social and check_nfts_for_user
\* minus the number of successful open_box calls.
C28_NoAwardLost ==
    \A u \in Users :
        (\A c \in CallsOf(u) : calls[c].pc = "done") =>
            db.key_count[u] = key0[u] + KeysEarned(CallsOf(u))
                                - Cardinality({c \in CallsOf(u) : Succeeded(c)})

\* C29: once initialize_system has been run again, an open_box call by a user
\* holding a key is refused for lack of boxes only when no unopened,
\* non-deleted box remains; and initialize_system changes no box row.
C29_ReinitKeepsCampaignOpen ==
    [][/\ \A c \in Calls :
            (reinitialized /\ calls[c].result = "none" /\ calls'[c].result = "no_boxes")
                => Available(db.boxes) = {}
       /\ db'.box_counter.next_position < db.box_counter.next_position
            => db'.boxes = db.boxes]_vars

\* non-deleted user_nft rows of user u recording NFT n
LiveNftRows(u, n) ==
    {i \in 1..Len(db.user_nft) :
        /\ db.user_nft[i].user_id = u /\ db.user_nft[i].nft = n
        /\ ~db.user_nft[i].deleted}

\* C30: check_nfts_for_user awards keys for an owned NFT at most once: a call
\* that finds no new NFT leaves key_count and the user_nft rows unchanged, and
\* no NFT is recorded in two non-deleted rows of the same user.
C30_NftAwardedOnce ==
    /\ [](\A u \in Users, n \in Nfts : Cardinality(LiveNftRows(u, n)) <= 1)
    /\ [][\A c \in Calls :
            (calls[c].pc = "n_scan" /\ calls'[c].result = "no_new")
                => db'.key_count = db.key_count /\ db'.user_nft = db.user_nft]_vars

====
